---- MODULE Spec2Model ----
(***************************************************************************)
(* A model of src/game.py, a Pygame Zero platformer: the rectangle physics *)
(* of AnimatedSprite, the Player, Enemy and Coin classes, init_level and   *)
(* the handlers update, on_key_down and on_mouse_down.                     *)
(*                                                                         *)
(* Units.  pygame.Rect holds integers, and assigning a float to one of its *)
(* attributes truncates toward zero.  Vertical velocities are multiples of *)
(* GRAVITY = 0.5, so the field vy holds the velocity in HALF pixels per    *)
(* tick (vy = 2 * the Python value); vx and all positions are in pixels.   *)
(* Times (dt, invincible_timer, animation_timer) are in units of 1/64 s:   *)
(* every frame time used below is a whole number of them, so the Python    *)
(* float arithmetic on times is exact; 2.0 s = 128, and a time is at least *)
(* 0.15 s exactly when it is at least 10 units.                            *)
(***************************************************************************)
EXTENDS Integers, Sequences, FiniteSets, TLC

VARIABLES game_state, music_enabled, sounds_enabled, score, lives,
          game_over_message, music_started, player, enemies, coins,
          platforms, buttons, mouse_pos, running, env, prev, clock, hist

vars == <<game_state, music_enabled, sounds_enabled, score, lives,
          game_over_message, music_started, player, enemies, coins,
          platforms, buttons, mouse_pos, running, env, prev, clock, hist>>

(***************************************************************************)
(* Program constants.                                                      *)
(***************************************************************************)
WIDTH == 800
HEIGHT == 600
\* GRAVITY = 0.5 pixel per tick, in half pixels
GRAVITY == 1
\* JUMP_STRENGTH = -12 pixels per tick, in half pixels
JUMP_STRENGTH == -24
\* terminal velocity 15 pixels per tick, in half pixels
MaxFall == 30
\* invincibility period 2.0 s, in 1/64 s
InvincibleTime == 128
\* animation_speed 0.15 s: the least number of 1/64 s that is >= 0.15 s
animation_speed == 10
\* "close enough" margin added to the coin radius
CoinMargin == 20
CoinValue == 10
PlayerSpeed == 4

(***************************************************************************)
(* pygame.Rect                                                             *)
(***************************************************************************)
Rect(x, y, w, h) == [x |-> x, y |-> y, w |-> w, h |-> h]

left(r) == r.x
top(r) == r.y
right(r) == r.x + r.w
bottom(r) == r.y + r.h
centerx(r) == r.x + (r.w \div 2)
centery(r) == r.y + (r.h \div 2)

\* Rect.colliderect: rectangles that only touch along an edge do not collide
colliderect(a, b) ==
    /\ a.x < b.x + b.w
    /\ a.y < b.y + b.h
    /\ a.x + a.w > b.x
    /\ a.y + a.h > b.y

\* Rect.collidepoint
collidepoint(r, p) ==
    /\ r.x <= p[1] /\ p[1] < r.x + r.w
    /\ r.y <= p[2] /\ p[2] < r.y + r.h

\* Sequencing of statements: the value of x is computed once and named in F
Then(x, F(_)) == CHOOSE r \in {F(v) : v \in {x}} : TRUE

\* int(n / 2) as C converts a double to int: toward zero
TruncHalf(n) == IF n >= 0 THEN n \div 2 ELSE -((-n) \div 2)

\* rect.y += vy, with vy in half pixels: int(y + vy/2)
AddHalf(y, vy) == TruncHalf(2 * y + vy)

(***************************************************************************)
(* class AnimatedSprite                                                    *)
(***************************************************************************)
AnimatedSprite(x, y, width, height) ==
    [rect |-> Rect(x, y, width, height), vx |-> 0, vy |-> 0,
     on_ground |-> FALSE, animation_frame |-> 0, animation_timer |-> 0,
     facing_right |-> TRUE]

update_animation(s, dt) ==
    IF s.animation_timer + dt >= animation_speed
    THEN [s EXCEPT !.animation_timer = 0,
                   !.animation_frame = s.animation_frame + 1]
    ELSE [s EXCEPT !.animation_timer = s.animation_timer + dt]

\* a variant of apply_gravity without the clamp of lines 55-56
apply_gravity_unclamped(s) ==
    IF ~s.on_ground THEN [s EXCEPT !.vy = s.vy + GRAVITY] ELSE s

apply_gravity(s) ==
    IF ~s.on_ground
    THEN [s EXCEPT !.vy = IF s.vy + GRAVITY > MaxFall
                          THEN MaxFall ELSE s.vy + GRAVITY]
    ELSE s

\* one iteration of the loop of check_collision_x
collide_x(s, platform) ==
    IF colliderect(s.rect, platform)
    THEN IF s.vx > 0
         THEN [s EXCEPT !.rect.x = left(platform) - s.rect.w]
         ELSE IF s.vx < 0
              THEN [s EXCEPT !.rect.x = right(platform)]
              ELSE s
    ELSE s

RECURSIVE check_collision_x_from(_, _, _)
check_collision_x_from(s, plats, i) ==
    IF i > Len(plats) THEN s
    ELSE Then(collide_x(s, plats[i]),
              LAMBDA s1 : check_collision_x_from(s1, plats, i + 1))

check_collision_x(s, plats) == check_collision_x_from(s, plats, 1)

\* a variant of the loop body of check_collision_y without lines 88-91
collide_y_lands_only(s, platform) ==
    IF colliderect(s.rect, platform) /\ s.vy > 0
    THEN [s EXCEPT !.rect.y = top(platform) - s.rect.h,
                   !.vy = 0, !.on_ground = TRUE]
    ELSE s

\* one iteration of the loop of check_collision_y
collide_y(s, platform) ==
    IF colliderect(s.rect, platform)
    THEN IF s.vy > 0
         THEN [s EXCEPT !.rect.y = top(platform) - s.rect.h,
                        !.vy = 0, !.on_ground = TRUE]
         ELSE IF s.vy < 0
              THEN [s EXCEPT !.rect.y = bottom(platform), !.vy = 0]
              ELSE s
    ELSE s

RECURSIVE check_collision_y_from(_, _, _)
check_collision_y_from(s, plats, i) ==
    IF i > Len(plats) THEN s
    ELSE Then(collide_y(s, plats[i]),
              LAMBDA s1 : check_collision_y_from(s1, plats, i + 1))

check_collision_y(s, plats) ==
    Then([s EXCEPT !.on_ground = FALSE],
         LAMBDA s1 : check_collision_y_from(s1, plats, 1))

move(s, plats) ==
    Then([s EXCEPT !.rect.x = s.rect.x + s.vx], LAMBDA s1 :
    Then(check_collision_x(s1, plats), LAMBDA s2 :
    Then([s2 EXCEPT !.rect.y = AddHalf(s2.rect.y, s2.vy)], LAMBDA s3 :
    check_collision_y(s3, plats))))

(***************************************************************************)
(* class Player                                                            *)
(***************************************************************************)
Player(x, y) ==
    [rect |-> Rect(x, y, 40, 50), vx |-> 0, vy |-> 0,
     on_ground |-> FALSE, animation_frame |-> 0, animation_timer |-> 0,
     facing_right |-> TRUE,
     jump_requested |-> FALSE, move_left |-> FALSE, move_right |-> FALSE,
     alive |-> TRUE, invincible |-> FALSE, invincible_timer |-> 0]

\* lines 145-149: the invincibility countdown
invincibility_countdown(p, dt) ==
    IF p.invincible
    THEN [p EXCEPT !.invincible_timer = p.invincible_timer - dt,
                   !.invincible = ~(p.invincible_timer - dt <= 0)]
    ELSE p

\* lines 151-158: horizontal input
horizontal_input(p) ==
    Then([p EXCEPT !.vx = 0], LAMBDA p0 :
    Then(IF p0.move_left
         THEN [p0 EXCEPT !.vx = -PlayerSpeed, !.facing_right = FALSE]
         ELSE p0, LAMBDA p1 :
    IF p1.move_right
    THEN [p1 EXCEPT !.vx = PlayerSpeed, !.facing_right = TRUE]
    ELSE p1))

\* lines 160-169: the jump (the sound it plays leaves no trace in the state)
\* a variant of jump that leaves the request pending
jump_keeps_request(p) ==
    IF p.jump_requested /\ p.on_ground
    THEN [p EXCEPT !.vy = JUMP_STRENGTH]
    ELSE p

jump(p) ==
    IF p.jump_requested /\ p.on_ground
    THEN [p EXCEPT !.vy = JUMP_STRENGTH, !.jump_requested = FALSE]
    ELSE p

\* a variant of lines 175-177 that tests the vertical velocity
player_animation_vy(p, dt) ==
    IF p.vy # 0 \/ ~p.on_ground THEN update_animation(p, dt) ELSE p

\* lines 175-177
player_animation(p, dt) ==
    IF p.vx # 0 \/ ~p.on_ground THEN update_animation(p, dt) ELSE p

\* a variant of lines 179-181 that takes the bottom of the screen for the
\* limit
fall_death_at_bottom(p) ==
    IF p.rect.y > HEIGHT THEN [p EXCEPT !.alive = FALSE] ELSE p

\* lines 179-181
fall_death(p) ==
    IF p.rect.y > HEIGHT + 100 THEN [p EXCEPT !.alive = FALSE] ELSE p

Player_update(p, dt, plats) ==
    IF ~p.alive THEN p
    ELSE Then(invincibility_countdown(p, dt), LAMBDA p1 :
         Then(horizontal_input(p1), LAMBDA p2 :
         Then(jump(p2), LAMBDA p3 :
         Then(apply_gravity(p3), LAMBDA p4 :
         Then(move(p4, plats), LAMBDA p5 :
         Then(player_animation(p5, dt), LAMBDA p6 :
         fall_death(p6)))))))

\* take_damage: the player after the call, and the value returned
take_damage_returns(p) == ~p.invincible

\* a variant of take_damage that sets the timer but not the flag
take_damage_no_window(p) ==
    IF ~p.invincible
    THEN [p EXCEPT !.invincible_timer = InvincibleTime]
    ELSE p

take_damage(p) ==
    IF ~p.invincible
    THEN [p EXCEPT !.invincible = TRUE, !.invincible_timer = InvincibleTime]
    ELSE p

(***************************************************************************)
(* class Enemy                                                             *)
(***************************************************************************)
Enemy(x, y, patrol_left, patrol_right) ==
    [rect |-> Rect(x, y, 35, 40), vx |-> 2, vy |-> 0,
     on_ground |-> FALSE, animation_frame |-> 0, animation_timer |-> 0,
     facing_right |-> TRUE,
     patrol_left |-> patrol_left, patrol_right |-> patrol_right,
     speed |-> 2]

\* lines 297-303: reverse direction at the patrol boundaries
\* a variant of patrol without the branch of lines 301-303
patrol_one_way(e) ==
    IF left(e.rect) <= e.patrol_left
    THEN [e EXCEPT !.vx = e.speed, !.facing_right = TRUE]
    ELSE e

patrol(e) ==
    IF left(e.rect) <= e.patrol_left
    THEN [e EXCEPT !.vx = e.speed, !.facing_right = TRUE]
    ELSE IF right(e.rect) >= e.patrol_right
         THEN [e EXCEPT !.vx = -e.speed, !.facing_right = FALSE]
         ELSE e

Enemy_update(e, dt, plats) ==
    Then(patrol(e), LAMBDA e1 :
    Then(apply_gravity(e1), LAMBDA e2 :
    Then(move(e2, plats), LAMBDA e3 :
    update_animation(e3, dt))))

(***************************************************************************)
(* class Coin                                                              *)
(***************************************************************************)
\* animation_frame advances by dt * 5 and is kept in units of 1/64
Coin(x, y) ==
    [x |-> x, y |-> y, radius |-> 12, collected |-> FALSE,
     animation_frame |-> 0]

Coin_update(c, dt) == [c EXCEPT !.animation_frame = c.animation_frame + dt * 5]

\* floor of math.sqrt on a natural number, by bisection:
\* lo * lo <= n < hi * hi throughout
RECURSIVE SqrtBetween(_, _, _)
SqrtBetween(n, lo, hi) ==
    IF hi - lo <= 1 THEN lo
    ELSE LET mid == (lo + hi) \div 2
         IN  IF mid * mid <= n THEN SqrtBetween(n, mid, hi)
             ELSE SqrtBetween(n, lo, mid)

\* the first power of two, from h on, whose square exceeds n
RECURSIVE SqrtAbove(_, _)
SqrtAbove(n, h) == IF h * h > n THEN h ELSE SqrtAbove(n, 2 * h)

FloorSqrt(n) == SqrtBetween(n, 0, SqrtAbove(n, 1))

Square(n) == n * n

\* a variant of InRange that takes dist <= radius + 20 for close enough
InRange_inclusive(c, p) ==
    FloorSqrt(Square(c.x - centerx(p.rect)) + Square(c.y - centery(p.rect)))
        <= c.radius + CoinMargin

\* lines 396-399: dist < radius + 20, where dist is the square root of an
\* integer and the bound is an integer, so dist < bound exactly when the
\* floor of dist is below the bound
InRange(c, p) ==
    FloorSqrt(Square(c.x - centerx(p.rect)) + Square(c.y - centery(p.rect)))
        < c.radius + CoinMargin

\* a variant of check_collision without the test of lines 393-394
Coin_check_collision_again(c, p) == InRange(c, p)

\* check_collision: the value returned, and the coin after the call
Coin_check_collision_returns(c, p) == ~c.collected /\ InRange(c, p)

\* a variant of check_collision that leaves out line 400
Coin_check_collision_unmarked(c, p) == c

Coin_check_collision(c, p) ==
    IF c.collected THEN c
    ELSE IF InRange(c, p) THEN [c EXCEPT !.collected = TRUE] ELSE c

(***************************************************************************)
(* class Button and the menu                                               *)
(***************************************************************************)
Button(x, y, width, height, text) ==
    [rect |-> Rect(x, y, width, height), text |-> text, hovered |-> FALSE]

Button_update(b, pos) == [b EXCEPT !.hovered = collidepoint(b.rect, pos)]

is_clicked(b, pos) == collidepoint(b.rect, pos)

MenuButtons ==
    << Button(300, 200, 200, 50, "Start Game"),
       Button(300, 280, 200, 50, "Toggle Music"),
       Button(300, 360, 200, 50, "Toggle Sounds"),
       Button(300, 440, 200, 50, "Exit") >>

(***************************************************************************)
(* init_level: the fixed layout                                            *)
(***************************************************************************)
LevelPlatforms ==
    << Rect(0, 550, 800, 50), Rect(150, 450, 200, 20),
       Rect(450, 400, 200, 20), Rect(200, 300, 150, 20),
       Rect(500, 250, 180, 20), Rect(300, 175, 150, 20) >>

LevelEnemies ==
    << Enemy(160, 400, 150, 330), Enemy(460, 350, 450, 630),
       Enemy(510, 200, 500, 660) >>

LevelCoins ==
    << Coin(250, 420), Coin(550, 370), Coin(275, 270),
       Coin(590, 220), Coin(375, 150), Coin(700, 500) >>

StartPlayer == Player(100, 400)

(***************************************************************************)
(* The environment: the frame driver and the person at the keyboard.       *)
(* Frame times are DtSmall (1/64 s) or DtLarge (1.0 s).  The inputs of a   *)
(* level follow one of the recorded play-throughs below, each a sequence   *)
(* of segments (n ticks with the same keys held and the same frame time,   *)
(* the jump key being pressed before the first of them); besides, at most  *)
(* MaxFree events are arbitrary: a tick with any keys and frame time or a   *)
(* key press while playing, which end the play-through that was being      *)
(* followed; or, as the last arbitrary event, a click, a mouse move, a key *)
(* press outside a level or a failing audio call.                          *)
(***************************************************************************)
MaxFree == 1
DtSmall == 1
DtLarge == 64

Dts == {DtSmall, DtLarge}

Seg(n, key, press, dt) == [n |-> n, key |-> key, press |-> press, dt |-> dt]

FallScript ==
    << Seg(63, "L", FALSE, DtSmall) >>

RouteScript ==
    << Seg(21, "N", FALSE, DtSmall), Seg(38, "N", TRUE, DtSmall),
       Seg(3, "R", FALSE, DtSmall), Seg(8, "N", TRUE, DtSmall),
       Seg(28, "R", FALSE, DtSmall), Seg(1, "N", FALSE, DtSmall),
       Seg(5, "N", TRUE, DtSmall), Seg(79, "R", FALSE, DtSmall),
       Seg(2, "N", FALSE, DtSmall), Seg(16, "N", TRUE, DtSmall),
       Seg(35, "R", FALSE, DtSmall), Seg(20, "N", FALSE, DtSmall),
       Seg(13, "N", TRUE, DtSmall), Seg(30, "L", FALSE, DtSmall) >>

WinScript ==
    << Seg(18, "N", FALSE, DtSmall), Seg(4, "N", TRUE, DtSmall),
       Seg(75, "L", FALSE, DtSmall) >>

LastCoinScript ==
    << Seg(1, "N", FALSE, DtLarge), Seg(5, "L", FALSE, DtLarge),
       Seg(48, "L", TRUE, DtLarge), Seg(3, "N", TRUE, DtLarge),
       Seg(22, "L", FALSE, DtLarge) >>

\* the shortest way from the start of a level into an enemy, then a rest
\* of 65 short frames and a long one
RushScript ==
    << Seg(21, "N", FALSE, DtSmall), Seg(7, "N", TRUE, DtSmall),
       Seg(40, "R", FALSE, DtSmall), Seg(65, "N", FALSE, DtSmall),
       Seg(1, "N", FALSE, DtLarge) >>

\* a jump from the ground over its left end, and the fall from there
LeapScript ==
    << Seg(21, "N", FALSE, DtSmall), Seg(64, "L", TRUE, DtSmall) >>

\* the jump key pressed at the start of a level, during the first fall
EarlyPressScript ==
    << Seg(25, "N", TRUE, DtSmall) >>

\* play-throughs 1..7; after RouteScript either WinScript or LastCoinScript
Scripts ==
    << FallScript, RouteScript, WinScript, LastCoinScript, RushScript,
       LeapScript, EarlyPressScript >>

Roots == {1, 2, 5, 6, 7}

Continuations(node) == IF node = 2 THEN {3, 4} ELSE {}

OffScript(e) == [e EXCEPT !.node = 0, !.seg = 1, !.k = 1]

OnScript == env.node # 0 /\ env.seg <= Len(Scripts[env.node])

CurSeg == Scripts[env.node][env.seg]

\* the environments after one scripted tick
Advance(e) ==
    IF e.k < Scripts[e.node][e.seg].n
    THEN {[e EXCEPT !.k = e.k + 1]}
    ELSE IF e.seg < Len(Scripts[e.node])
         THEN {[e EXCEPT !.seg = e.seg + 1, !.k = 1]}
         ELSE IF Continuations(e.node) = {}
              THEN {OffScript(e)}
              ELSE {[e EXCEPT !.node = c, !.seg = 1, !.k = 1] :
                        c \in Continuations(e.node)}

Spend(e) == [e EXCEPT !.free = e.free - 1]

SpendAll(e) == [e EXCEPT !.free = 0]

Keys == {"SPACE", "UP", "OTHER"}

\* one point in each menu button, and one outside them all
Points == {<<400, 225>>, <<400, 305>>, <<400, 385>>, <<400, 465>>, <<10, 10>>}

(***************************************************************************)
(* update(dt) while game_state is "playing": lines 522-525 and 532-573     *)
(***************************************************************************)
\* a variant of lines 553-564 in which a hit adds a life
enemy_check_gives_life(st, e) ==
    IF colliderect(st.player.rect, e.rect) /\ take_damage_returns(st.player)
    THEN [player |-> take_damage(st.player), lives |-> st.lives + 1,
          game_over_message |-> st.game_over_message]
    ELSE st

\* lines 553-564: one iteration of the player-enemy loop, on the triple
\* (player, lives, game_over_message)
enemy_check(st, e) ==
    IF colliderect(st.player.rect, e.rect) /\ take_damage_returns(st.player)
    THEN Then(take_damage(st.player), LAMBDA p :
         Then(st.lives - 1, LAMBDA l :
         IF l <= 0
         THEN [player |-> [p EXCEPT !.alive = FALSE], lives |-> l,
               game_over_message |-> "Game Over! No lives left!"]
         ELSE [player |-> p, lives |-> l,
               game_over_message |-> st.game_over_message]))
    ELSE st

RECURSIVE enemy_checks_from(_, _, _)
enemy_checks_from(st, es, i) ==
    IF i > Len(es) THEN st
    ELSE Then(enemy_check(st, es[i]),
              LAMBDA st1 : enemy_checks_from(st1, es, i + 1))

\* lines 550-564
enemy_checks(st, es) ==
    IF st.player.alive THEN enemy_checks_from(st, es, 1) ELSE st

\* a variant of all(...) that overlooks the first coin
all_but_first_collected(cs) == \A i \in DOMAIN cs : i > 1 => cs[i].collected

all_collected(cs) == \A i \in DOMAIN cs : cs[i].collected

\* a variant of lines 566-573 in which a win hides the death of the player
end_of_tick_win_first(st) ==
    IF all_collected(st.coins)
    THEN [st EXCEPT !.game_state = "win",
                    !.game_over_message =
                        "You Won! Score: " \o ToString(st.score)]
    ELSE IF ~st.player.alive
         THEN [st EXCEPT !.game_state = "gameover"]
         ELSE st

\* a variant of lines 566-573 without the game-over transition
end_of_tick_stays(st) ==
    IF all_collected(st.coins) /\ st.player.alive
    THEN [st EXCEPT !.game_state = "win",
                    !.game_over_message =
                        "You Won! Score: " \o ToString(st.score)]
    ELSE st

\* lines 566-573: the win and game-over transitions, in this order
end_of_tick(st) ==
    Then(IF all_collected(st.coins) /\ st.player.alive
         THEN [st EXCEPT !.game_state = "win",
                         !.game_over_message =
                             "You Won! Score: " \o ToString(st.score)]
         ELSE st, LAMBDA st1 :
    IF ~st1.player.alive
    THEN [st1 EXCEPT !.game_state = "gameover"]
    ELSE st1)

Session ==
    [game_state |-> game_state, score |-> score, lives |-> lives,
     game_over_message |-> game_over_message, player |-> player,
     enemies |-> enemies, coins |-> coins]

playing_tick(ss, dt, kl, kr, plats) ==
    Then([ss.player EXCEPT !.move_left = kl, !.move_right = kr], LAMBDA p0 :
    Then(Player_update(p0, dt, plats), LAMBDA p1 :
    Then([i \in DOMAIN ss.enemies |->
             Enemy_update(ss.enemies[i], dt, plats)], LAMBDA es :
    Then([i \in DOMAIN ss.coins |-> Coin_update(ss.coins[i], dt)],
         LAMBDA cs0 :
    Then({i \in DOMAIN cs0 : Coin_check_collision_returns(cs0[i], p1)},
         LAMBDA got :
    Then([i \in DOMAIN cs0 |-> Coin_check_collision(cs0[i], p1)],
         LAMBDA cs :
    Then(enemy_checks([player |-> p1, lives |-> ss.lives,
                       game_over_message |-> ss.game_over_message], es),
         LAMBDA hit :
    Then([game_state |-> ss.game_state,
          score |-> ss.score + CoinValue * Cardinality(got),
          lives |-> hit.lives,
          game_over_message |-> hit.game_over_message,
          player |-> hit.player, enemies |-> es, coins |-> cs],
         LAMBDA st : end_of_tick(st)))))))))

\* lines 514-520: music.play("background") succeeds (ok) or raises
start_music(ok) ==
    IF ~music_started /\ music_enabled THEN ok ELSE music_started

MusicFails(ok) == ~music_started /\ music_enabled /\ ~ok

\* the tick follows the play-through
Scripted(dt, kl, kr, ok) ==
    /\ OnScript /\ ok
    /\ dt = CurSeg.dt
    /\ kl = (CurSeg.key = "L") /\ kr = (CurSeg.key = "R")
    /\ (CurSeg.press /\ env.k = 1) => player.jump_requested

update(dt, kl, kr, ok) ==
    /\ running
    /\ ok \/ (~music_started /\ music_enabled)
    /\ IF game_state = "playing"
       THEN /\ Scripted(dt, kl, kr, ok) \/ env.free > 0
            /\ \E st \in {playing_tick(Session, dt, kl, kr, platforms)} :
                /\ game_state' = st.game_state
                /\ score' = st.score
                /\ lives' = st.lives
                /\ game_over_message' = st.game_over_message
                /\ player' = st.player
                /\ enemies' = st.enemies
                /\ coins' = st.coins
                /\ \/ /\ Scripted(dt, kl, kr, ok)
                      /\ IF st.game_state = "playing"
                         THEN env' \in Advance(env)
                         ELSE env' = OffScript(env)
                   \/ /\ env.free > 0
                      /\ env' = OffScript(Spend(env))
            /\ UNCHANGED buttons
       ELSE /\ dt = DtSmall /\ ~kl /\ ~kr
            /\ buttons' = IF game_state = "menu"
                          THEN [i \in DOMAIN buttons |->
                                   Button_update(buttons[i], mouse_pos)]
                          ELSE buttons
            /\ IF MusicFails(ok)
               THEN env.free > 0 /\ env' = SpendAll(env)
               ELSE UNCHANGED env
            /\ UNCHANGED <<game_state, score, lives, game_over_message,
                           player, enemies, coins>>
    /\ music_started' = start_music(ok)
    /\ UNCHANGED <<music_enabled, sounds_enabled, platforms, mouse_pos,
                   running>>

(***************************************************************************)
(* on_key_down                                                             *)
(***************************************************************************)
\* line 641
request_jump(p) == [p EXCEPT !.jump_requested = TRUE]

\* a variant of line 645 that restarts the level at once
acknowledge_restarts(gs) == "playing"

\* line 645
acknowledge(gs) == "menu"

on_key_down(key) ==
    /\ running
    /\ IF game_state = "playing"
       THEN /\ player' = IF key \in {"SPACE", "UP"}
                         THEN request_jump(player)
                         ELSE player
            /\ UNCHANGED game_state
            /\ \/ /\ OnScript /\ CurSeg.press /\ env.k = 1
                  /\ key = "SPACE" /\ ~player.jump_requested
                  /\ UNCHANGED env
               \/ /\ env.free > 0
                  /\ env' = IF key \in {"SPACE", "UP"}
                            THEN OffScript(Spend(env)) ELSE SpendAll(env)
       ELSE IF game_state \in {"gameover", "win"} /\ key = "SPACE"
            THEN /\ game_state' = acknowledge(game_state)
                 /\ UNCHANGED <<player, env>>
            ELSE /\ env.free > 0
                 /\ env' = SpendAll(env)
                 /\ UNCHANGED <<game_state, player>>
    /\ UNCHANGED <<music_enabled, sounds_enabled, score, lives,
                   game_over_message, music_started, enemies, coins,
                   platforms, buttons, mouse_pos, running>>

(***************************************************************************)
(* on_mouse_down                                                           *)
(***************************************************************************)
\* line 474: the globals of init_level
Level ==
    [player |-> player, enemies |-> enemies, coins |-> coins,
     platforms |-> platforms, score |-> score, lives |-> lives,
     game_over_message |-> game_over_message]

\* list.clear()
clear(list) == SubSeq(list, 1, 0)

\* a variant of init_level that keeps the score and the lives of the last game
init_level_keeps_counters(g) ==
    [player |-> StartPlayer,
     enemies |-> clear(g.enemies) \o LevelEnemies,
     coins |-> clear(g.coins) \o LevelCoins,
     platforms |-> clear(g.platforms) \o LevelPlatforms,
     score |-> g.score, lives |-> g.lives, game_over_message |-> ""]

\* a variant of init_level without lines 477-479: the lists are not cleared
init_level_appends(g) ==
    [player |-> StartPlayer,
     enemies |-> g.enemies \o LevelEnemies,
     coins |-> g.coins \o LevelCoins,
     platforms |-> g.platforms \o LevelPlatforms,
     score |-> 0, lives |-> 3, game_over_message |-> ""]

\* init_level, from the globals g to the globals it leaves: the lists are
\* cleared and then filled by append
init_level(g) ==
    [player |-> StartPlayer,
     enemies |-> clear(g.enemies) \o LevelEnemies,
     coins |-> clear(g.coins) \o LevelCoins,
     platforms |-> clear(g.platforms) \o LevelPlatforms,
     score |-> 0, lives |-> 3, game_over_message |-> ""]

\* the buttons do not overlap, so a click is in at most one of them
Clicked(pos) == {i \in DOMAIN buttons : is_clicked(buttons[i], pos)}

\* lines 657-665: init_level(), game_state = "playing", music
start_game(ok) ==
    /\ \E g \in {init_level(Level)} :
          /\ player' = g.player
          /\ enemies' = g.enemies
          /\ coins' = g.coins
          /\ platforms' = g.platforms
          /\ score' = g.score
          /\ lives' = g.lives
          /\ game_over_message' = g.game_over_message
    /\ game_state' = "playing"
    /\ music_started' = start_music(ok)
    /\ \E r \in Roots :
          IF MusicFails(ok)
          THEN env.free > 0 /\ env' = [SpendAll(env) EXCEPT !.node = r]
          ELSE env' = [env EXCEPT !.node = r, !.seg = 1, !.k = 1]
    /\ UNCHANGED <<music_enabled, sounds_enabled, running>>

\* lines 666-677; music.stop() is not inside a try, and when it raises the
\* handler is left with music_started as it was
toggle_music(ok) ==
    /\ music_enabled' = ~music_enabled
    /\ music_started' = IF ~music_enabled
                        THEN (IF ok THEN TRUE ELSE music_started)
                        ELSE (IF ok THEN FALSE ELSE music_started)
    /\ env.free > 0 /\ env' = SpendAll(env)
    /\ UNCHANGED <<game_state, sounds_enabled, score, lives,
                   game_over_message, player, enemies, coins, platforms,
                   running>>

toggle_sounds ==
    /\ sounds_enabled' = ~sounds_enabled
    /\ env.free > 0 /\ env' = SpendAll(env)
    /\ UNCHANGED <<game_state, music_enabled, score, lives,
                   game_over_message, music_started, player, enemies, coins,
                   platforms, running>>

\* exit() ends the program
exit_game ==
    /\ running' = FALSE
    /\ UNCHANGED <<game_state, music_enabled, sounds_enabled, score, lives,
                   game_over_message, music_started, player, enemies, coins,
                   platforms, env>>

on_mouse_down(pos, ok) ==
    /\ running
    /\ IF game_state = "menu" /\ Clicked(pos) # {}
       THEN LET i == CHOOSE b \in Clicked(pos) : TRUE
            IN  CASE i = 1 -> start_game(ok)
                  [] i = 2 -> toggle_music(ok)
                  [] i = 3 -> ok /\ toggle_sounds
                  [] OTHER -> ok /\ exit_game
       ELSE /\ ok /\ env.free > 0
            /\ env' = SpendAll(env)
            /\ UNCHANGED <<game_state, music_enabled, sounds_enabled, score,
                           lives, game_over_message, music_started, player,
                           enemies, coins, platforms, running>>
    /\ UNCHANGED <<buttons, mouse_pos>>

(***************************************************************************)
(* on_mouse_move                                                           *)
(***************************************************************************)
on_mouse_move(pos) ==
    /\ running
    /\ mouse_pos' = pos
    /\ env.free > 0 /\ env' = SpendAll(env)
    /\ UNCHANGED <<game_state, music_enabled, sounds_enabled, score, lives,
                   game_over_message, music_started, player, enemies, coins,
                   platforms, buttons, running>>

(***************************************************************************)
(* History variables.  prev is what could be observed before the last      *)
(* step, and whether that step was a playing tick.  clock measures the     *)
(* time (sum of dt over the player updates) since lives was last           *)
(* decremented, and what that time was at the last decrement: since_hit    *)
(* and gap within the level, since_any and gap_any over all levels.  All   *)
(* four stop counting at InvincibleTime, which is also their value while   *)
(* lives has not been decremented.  hist tells of the last step whether    *)
(* an audio call in it failed (failed) and whether its handler was left by *)
(* an exception (raised), and of a pending jump request whether every key  *)
(* press that made it found the player off the ground (air_request).       *)
(***************************************************************************)
Collected(cs) == {i \in DOMAIN cs : cs[i].collected}

Observe(tick) ==
    [tick |-> tick, game_state |-> game_state, score |-> score,
     lives |-> lives, game_over_message |-> game_over_message,
     collected |-> Collected(coins), player |-> player]

Min(a, b) == IF a <= b THEN a ELSE b

NoHit ==
    [since_hit |-> InvincibleTime, gap |-> InvincibleTime,
     since_any |-> InvincibleTime, gap_any |-> InvincibleTime]

Tock(dt) ==
    IF game_state # "playing" THEN clock
    ELSE IF lives' < lives
         THEN [since_hit |-> 0,
               gap |-> Min(clock.since_hit + dt, InvincibleTime),
               since_any |-> 0,
               gap_any |-> Min(clock.since_any + dt, InvincibleTime)]
         ELSE [clock EXCEPT
                  !.since_hit = Min(clock.since_hit + dt, InvincibleTime),
                  !.since_any = Min(clock.since_any + dt, InvincibleTime)]

Quiet == [air_request |-> FALSE, raised |-> FALSE, failed |-> FALSE]

\* a new level starts the level's clock
NewLevel ==
    [clock EXCEPT !.since_hit = InvincibleTime, !.gap = InvincibleTime]

(***************************************************************************)
(* The program: module-level state of game.py, then any of its handlers.   *)
(***************************************************************************)
Program ==
    /\ game_state = "menu"
    /\ music_enabled = TRUE
    /\ sounds_enabled = TRUE
    /\ score = 0
    /\ lives = 3
    /\ game_over_message = ""
    /\ music_started = FALSE
    /\ player = StartPlayer
    /\ enemies = <<>>
    /\ coins = <<>>
    /\ platforms = <<>>
    /\ buttons = MenuButtons
    /\ mouse_pos = <<0, 0>>
    /\ running = TRUE

Init ==
    /\ Program
    /\ env = [node |-> 0, seg |-> 1, k |-> 1, free |-> MaxFree]
    /\ prev = Observe(FALSE)
    /\ clock = NoHit
    /\ hist = Quiet

Update ==
    \E dt \in Dts, kl, kr, ok \in BOOLEAN :
        /\ update(dt, kl, kr, ok)
        /\ prev' = Observe(game_state = "playing")
        /\ clock' = Tock(dt)
        /\ hist' = [air_request |->
                        hist.air_request /\ player'.jump_requested,
                    raised |-> FALSE,
                    failed |-> MusicFails(ok)]

OnKeyDown ==
    \E key \in Keys :
        /\ on_key_down(key)
        /\ prev' = Observe(FALSE)
        /\ UNCHANGED clock
        /\ hist' = [air_request |->
                        IF game_state = "playing" /\ key \in {"SPACE", "UP"}
                        THEN /\ ~player.on_ground
                             /\ player.jump_requested => hist.air_request
                        ELSE hist.air_request,
                    raised |-> FALSE,
                    failed |-> FALSE]

OnMouseDown ==
    \E pos \in Points, ok \in BOOLEAN :
        /\ on_mouse_down(pos, ok)
        /\ prev' = Observe(FALSE)
        /\ clock' = IF game_state' # game_state THEN NewLevel ELSE clock
        /\ hist' = [air_request |->
                        hist.air_request /\ game_state' = game_state,
                    raised |->
                        /\ game_state = "menu" /\ Clicked(pos) = {2}
                        /\ music_enabled /\ ~ok,
                    failed |->
                        /\ game_state = "menu" /\ ~ok
                        /\ \/ Clicked(pos) = {2}
                           \/ Clicked(pos) = {1} /\ MusicFails(ok)]

OnMouseMove ==
    \E pos \in Points :
        /\ on_mouse_move(pos)
        /\ prev' = Observe(FALSE)
        /\ UNCHANGED clock
        /\ hist' = Quiet

Next == Update \/ OnKeyDown \/ OnMouseDown \/ OnMouseMove

Spec == Init /\ [][Next]_vars

(***************************************************************************)
(* Coin.check_collision on chosen inputs: a level in which the player is   *)
(* in the air around the first coin, at each of CoinOffsets from it in x   *)
(* and in y, clear of the platforms; UnitFree arbitrary events follow.     *)
(***************************************************************************)
UnitFree == 1

CoinOffsets == {-33, -32, -31, -23, -22, 0, 22, 23, 31, 32, 33}

Clear(r, plats) == \A i \in DOMAIN plats : ~colliderect(r, plats[i])

InitCoin ==
    /\ game_state = "playing"
    /\ music_enabled = TRUE
    /\ sounds_enabled = TRUE
    /\ score = 0
    /\ lives = 3
    /\ game_over_message = ""
    /\ music_started = TRUE
    /\ \E dx, dy \in CoinOffsets :
          /\ player = Player(LevelCoins[1].x + dx - 20,
                             LevelCoins[1].y + dy - 25)
          /\ Clear(player.rect, LevelPlatforms)
    /\ enemies = LevelEnemies
    /\ coins = LevelCoins
    /\ platforms = LevelPlatforms
    /\ buttons = MenuButtons
    /\ mouse_pos = <<0, 0>>
    /\ running = TRUE
    /\ env = [node |-> 0, seg |-> 1, k |-> 1, free |-> UnitFree]
    /\ prev = Observe(FALSE)
    /\ clock = NoHit
    /\ hist = Quiet

SpecCoin == (Init \/ InitCoin) /\ [][Next]_vars

(***************************************************************************)
(* A level in which the ticks keep coming: from the start of a level, the  *)
(* frame driver calls update(dt) with the short frame time for ever, and   *)
(* nobody touches the keyboard or the mouse.  The frame counters, which    *)
(* grow without bound and which only draw reads, are left out of the       *)
(* state: a tick leaves them at 0.                                         *)
(***************************************************************************)
NoFrames(b) == [b EXCEPT !.animation_frame = 0]

InitPatrol ==
    /\ game_state = "playing"
    /\ music_enabled = TRUE
    /\ sounds_enabled = TRUE
    /\ score = 0
    /\ lives = 3
    /\ game_over_message = ""
    /\ music_started = TRUE
    /\ player = StartPlayer
    /\ enemies = LevelEnemies
    /\ coins = LevelCoins
    /\ platforms = LevelPlatforms
    /\ buttons = MenuButtons
    /\ mouse_pos = <<0, 0>>
    /\ running = TRUE
    /\ env = [node |-> 0, seg |-> 1, k |-> 1, free |-> 0]
    /\ prev = Observe(FALSE)
    /\ clock = NoHit
    /\ hist = Quiet

PatrolTick ==
    /\ running /\ game_state = "playing"
    /\ \E st \in {playing_tick(Session, DtSmall, FALSE, FALSE, platforms)} :
          /\ game_state' = st.game_state
          /\ score' = st.score
          /\ lives' = st.lives
          /\ game_over_message' = st.game_over_message
          /\ player' = NoFrames(st.player)
          /\ enemies' = [j \in DOMAIN st.enemies |-> NoFrames(st.enemies[j])]
          /\ coins' = [i \in DOMAIN st.coins |-> NoFrames(st.coins[i])]
    /\ music_started' = start_music(TRUE)
    /\ UNCHANGED <<music_enabled, sounds_enabled, platforms, buttons,
                   mouse_pos, running, env>>
    /\ prev' = Observe(TRUE)
    /\ clock' = Tock(DtSmall)
    /\ hist' = Quiet

\* lines 536-537: the part of a playing tick that updates the enemies
EnemiesTick ==
    /\ running /\ game_state = "playing"
    /\ enemies' = [j \in DOMAIN enemies |->
                      NoFrames(Enemy_update(enemies[j], DtSmall, platforms))]

\* pgzero calls update(dt) once per frame for as long as the window is
\* open: the tick, seen on the enemies it moves, is taken again and again.
SpecPatrol == InitPatrol /\ [][PatrolTick]_vars /\ WF_enemies(EnemiesTick)

(***************************************************************************)
(* AnimatedSprite.move on chosen inputs: a level in which the player is    *)
(* around the second platform, within one step of its sides, its top and   *)
(* its bottom, clear of every platform, with each of MoveVys for vy, on    *)
(* the ground or not; UnitFree arbitrary events follow.                    *)
(***************************************************************************)
MoveDxs == -4..4

MoveAbove == {0, 1, 7, 14, 15}

MoveBelow == {0, 1, 11, 12}

MoveVys == {-24, -13, -1, 0, 1, 30}

MoveXs ==
    {left(LevelPlatforms[2]) - 40 + d : d \in MoveDxs}
        \cup {right(LevelPlatforms[2]) + d : d \in MoveDxs}
        \cup {left(LevelPlatforms[2]) + 80}

MoveYs ==
    {top(LevelPlatforms[2]) - 50 - d : d \in MoveAbove}
        \cup {bottom(LevelPlatforms[2]) + d : d \in MoveBelow}
        \cup {top(LevelPlatforms[2]) - 25}

InitMove ==
    /\ game_state = "playing"
    /\ music_enabled = TRUE
    /\ sounds_enabled = TRUE
    /\ score = 0
    /\ lives = 3
    /\ game_over_message = ""
    /\ music_started = TRUE
    /\ \E x \in MoveXs, y \in MoveYs, v \in MoveVys, g \in BOOLEAN :
          /\ player = [Player(x, y) EXCEPT !.vy = v, !.on_ground = g]
          /\ Clear(player.rect, LevelPlatforms)
    /\ enemies = LevelEnemies
    /\ coins = LevelCoins
    /\ platforms = LevelPlatforms
    /\ buttons = MenuButtons
    /\ mouse_pos = <<0, 0>>
    /\ running = TRUE
    /\ env = [node |-> 0, seg |-> 1, k |-> 1, free |-> UnitFree]
    /\ prev = Observe(FALSE)
    /\ clock = NoHit
    /\ hist = Quiet

SpecMove == (Init \/ InitMove) /\ [][Next]_vars

(***************************************************************************)
(* Properties.  In an action formula, prev'.tick says that the step is a   *)
(* playing tick: a call of update(dt) while game_state is "playing".       *)
(***************************************************************************)
AllCoins(cs) == Collected(cs) = DOMAIN cs

OtherGlobals ==
    <<music_enabled, sounds_enabled, score, lives, game_over_message,
      music_started, player, enemies, coins, platforms, buttons, mouse_pos,
      running>>

\* C1: game_state changes only along menu -> playing (by a step that
\* initialises the level), playing -> gameover and playing -> win (in a
\* playing tick), gameover -> menu and win -> menu (by a step that changes
\* nothing else, as the SPACE key press does).
C1_Transitions ==
    [][game_state' # game_state =>
          \/ /\ game_state = "menu" /\ game_state' = "playing"
             /\ ~prev'.tick
             /\ player' = StartPlayer /\ score' = 0 /\ lives' = 3
          \/ /\ game_state = "playing" /\ game_state' \in {"gameover", "win"}
             /\ prev'.tick
          \/ /\ game_state \in {"gameover", "win"} /\ game_state' = "menu"
             /\ ~prev'.tick
             /\ UNCHANGED OtherGlobals]_vars

\* the menu, reached from the win screen
C1_Witness == game_state = "menu" /\ prev.game_state = "win"

\* C2: a playing tick in which the last coin is collected and the player
\* dies ends in gameover.
C2_DeathBeatsWin ==
    [][(prev'.tick /\ ~AllCoins(coins) /\ AllCoins(coins') /\ ~player'.alive)
          => game_state' = "gameover"]_vars

\* the last coin and the last life taken by the same tick
C2_Witness ==
    /\ game_state = "gameover" /\ prev.tick
    /\ Cardinality(prev.collected) = 5 /\ AllCoins(coins)
    /\ prev.lives = 1 /\ lives = 0 /\ ~player.alive

\* C3: a playing tick ends in win exactly when after it every coin is
\* collected and the player is alive; the last coin was collected in that
\* tick and the message is "You Won! Score: " and the score.
C3_WinIff ==
    [][prev'.tick =>
          /\ (game_state' = "win") <=> (AllCoins(coins') /\ player'.alive)
          /\ game_state' = "win" =>
                /\ ~AllCoins(coins)
                /\ game_over_message' =
                       "You Won! Score: " \o ToString(score')]_vars

\* the win, in the tick that collected the sixth coin
C3_Witness ==
    /\ game_state = "win" /\ prev.tick /\ Cardinality(prev.collected) = 5
    /\ score = 60 /\ game_over_message = "You Won! Score: 60"

FreshLevel ==
    /\ score = 0 /\ lives = 3 /\ game_over_message = ""
    /\ player.alive /\ ~player.invincible
    /\ player.rect = Rect(100, 400, 40, 50)
    /\ platforms = LevelPlatforms /\ Len(platforms) = 6
    /\ enemies = LevelEnemies /\ Len(enemies) = 3
    /\ coins = LevelCoins /\ Len(coins) = 6 /\ Collected(coins) = {}

\* C4: whenever game_state changes to playing, the level is fresh.
C4_FreshLevel ==
    [][(game_state # "playing" /\ game_state' = "playing") => FreshLevel']_vars

\* a level started after a game that ended with score 60, no lives, a
\* dead player and a message
C4_Witness ==
    /\ game_state = "playing" /\ FreshLevel
    /\ prev.game_state = "menu" /\ prev.score = 60 /\ prev.lives = 0
    /\ ~prev.player.alive /\ prev.game_over_message # ""

\* some enemy of es overlaps the player p
Overlaps(p, es) == \E i \in DOMAIN es : colliderect(p.rect, es[i].rect)

\* the most enemies piled on the player
MaxPile == 3

\* n enemies that all overlap the player p
Pile(p, n) == [i \in 1..n |-> Enemy(p.rect.x, p.rect.y, 0, WIDTH)]

\* the player-enemy loop of the tick on n enemies piled on the player p,
\* with l lives
PileChecks(p, l, n) ==
    enemy_checks([player |-> p, lives |-> l, game_over_message |-> ""],
                 Pile(p, n))

\* A playing tick called take_damage exactly when the updated player did not
\* die of the fall and overlaps an enemy; the window is open after the tick
\* exactly when it was open during the calls.  The tick decrements lives,
\* by one, exactly when take_damage was called with the window closed, and
\* then leaves a window of 2.0 s; with the window open, lives is unchanged.
\* The same holds of the loop on several enemies that all overlap the
\* player, with the window open and with it closed.
C5_Window ==
    prev'.tick =>
        LET called == player'.rect.y <= HEIGHT + 100
                          /\ Overlaps(player', enemies')
            open == player'.invincible
                        /\ player'.invincible_timer < InvincibleTime
            shut == [player' EXCEPT !.alive = TRUE, !.invincible = FALSE]
        IN  /\ lives' \in {lives - 1, lives}
            /\ lives' = lives - 1 <=> (called /\ ~open)
            /\ lives' = lives - 1 =>
                   /\ player'.invincible
                   /\ player'.invincible_timer = InvincibleTime
            /\ open => lives' = lives
            /\ \A n \in 2..MaxPile :
                   /\ PileChecks(shut, 3, n).lives = 2
                   /\ PileChecks(shut, 3, n).player =
                          [shut EXCEPT !.invincible = TRUE,
                                       !.invincible_timer = InvincibleTime]
                   /\ open =>
                          /\ PileChecks(player', lives', n).lives = lives'
                          /\ PileChecks(player', lives', n).player = player'

\* C5 as stated: C5_Window, and between any two decrements of lives at
\* least 2.0 s of player updates elapse.
C5_Original ==
    [][C5_Window /\ clock'.gap_any >= InvincibleTime]_vars

\* C5, amended: C5_Window, and between any two decrements of lives in the
\* same level at least 2.0 s of player updates elapse.
C5_Invincibility ==
    [][C5_Window /\ clock'.gap >= InvincibleTime]_vars

\* the second decrement of a level, by the tick whose update closed the
\* window of the first, 2.0 s after it
C5_Witness ==
    /\ prev.tick /\ prev.lives = 2 /\ lives = 1
    /\ prev.player.invincible /\ player.invincible
    /\ player.invincible_timer = InvincibleTime
    /\ clock.gap = InvincibleTime

\* C6: outside level initialisation a collected coin stays collected;
\* check_collision on a collected coin returns false and leaves it as it
\* is; a playing tick adds to the score 10 for each coin it collected.
C6_CollectedOnce ==
    [][/\ ~(game_state = "menu" /\ game_state' = "playing")
          => Collected(coins) \subseteq Collected(coins')
       /\ \A i \in Collected(coins) :
             /\ ~Coin_check_collision_returns(coins[i], player)
             /\ Coin_check_collision(coins[i], player) = coins[i]
       /\ prev'.tick =>
             score' = score + 10 * Cardinality(Collected(coins')
                                                  \ Collected(coins))]_vars

\* a tick that left the score alone with the player in range of a coin
\* collected before it
C6_Witness ==
    /\ game_state = "playing" /\ prev.tick /\ score = prev.score
    /\ \E i \in prev.collected : InRange(coins[i], player)

\* squared distance between the centre of the coin c and the centre of the
\* rectangle of the player p
SqDist(c, p) == Square(c.x - centerx(p.rect)) + Square(c.y - centery(p.rect))

\* the coins that were not collected and whose centre is, after the tick,
\* less than 32 from the centre of the player
Reached ==
    {i \in DOMAIN coins : ~coins[i].collected
                             /\ SqDist(coins[i], player') < 1024}

\* C7: in a playing tick, check_collision on an uncollected coin (of radius
\* 12) collects it exactly when the squared distance between its centre and
\* the centre of the updated player is below 1024; at 1024 or more the coin
\* stays uncollected; the tick adds to the score 10 for each coin so
\* collected.
C7_CoinRange ==
    [][prev'.tick =>
          /\ \A i \in DOMAIN coins :
                /\ coins[i].radius = 12
                /\ ~coins[i].collected =>
                       (coins'[i].collected <=> i \in Reached)
          /\ score' = score + 10 * Cardinality(Reached)]_vars

\* a tick that left the player at exactly 32 from the first coin, which it
\* did not collect
C7_Witness ==
    /\ prev.tick /\ game_state = "playing"
    /\ SqDist(coins[1], player) = 1024
    /\ ~coins[1].collected /\ score = prev.score

\* after apply_gravity, the body b falls (or rests) and the platform is
\* directly below it, before and after the horizontal move, with its top
\* within the fall of the tick from the bottom of b, the bottom included
Below(b, platform) ==
    /\ apply_gravity(b).vy >= 0
    /\ left(b.rect) < right(platform) /\ right(b.rect) > left(platform)
    /\ left(b.rect) + b.vx < right(platform)
    /\ right(b.rect) + b.vx > left(platform)
    /\ top(platform) >= bottom(b.rect)
    /\ 2 * (top(platform) - bottom(b.rect)) <= apply_gravity(b).vy

\* apply_gravity and one move against the platform leave b on it
Lands(b, platform) ==
    LET r == move(apply_gravity(b), <<platform>>)
    IN  r.on_ground /\ r.vy = 0 /\ bottom(r.rect) = top(platform)

\* C8: every body (the player, each enemy) with a platform directly below
\* it whose top is within its fall range for the tick, a body touching the
\* platform included, is after apply_gravity and one move against that
\* platform on the ground with vy = 0 and its bottom on the platform top.
C8_Lands ==
    \A i \in DOMAIN platforms :
        /\ Below(player, platforms[i]) => Lands(player, platforms[i])
        /\ \A j \in DOMAIN enemies :
               Below(enemies[j], platforms[i])
                   => Lands(enemies[j], platforms[i])

\* the vertical velocity that apply_gravity leaves: v on the ground,
\* otherwise 0.5 more than v and at most 15
Gravity(v, on_ground) == IF on_ground THEN v ELSE Min(v + 1, 30)

VyInRange ==
    /\ player.vy \in -24..30
    /\ \A j \in DOMAIN enemies : enemies[j].vy \in -24..30

\* C9: apply_gravity changes of a body only vy, and only off the ground,
\* to min(vy + 0.5, 15); the vy a playing tick leaves is the one
\* apply_gravity set (from -12 when the player jumped) or the 0 of a
\* collision; and the vy of the player and of every enemy is always at
\* least -12 and at most 15.
C9_Gravity ==
    [][/\ VyInRange /\ VyInRange'
       /\ apply_gravity(player) =
              [player EXCEPT !.vy = Gravity(player.vy, player.on_ground)]
       /\ \A j \in DOMAIN enemies :
              apply_gravity(enemies[j]) =
                  [enemies[j] EXCEPT
                      !.vy = Gravity(enemies[j].vy, enemies[j].on_ground)]
       /\ prev'.tick =>
              /\ player'.vy \in
                     {0, Gravity(IF player.jump_requested /\ player.on_ground
                                 THEN -24 ELSE player.vy, player.on_ground)}
              /\ \A j \in DOMAIN enemies :
                     enemies'[j].vy \in
                         {0, Gravity(enemies[j].vy,
                                     enemies[j].on_ground)}]_vars

\* a tick of a player falling at 15, whom it leaves falling at 15
C9_Witness ==
    /\ prev.tick /\ ~prev.player.on_ground /\ prev.player.vy = 30
    /\ ~player.on_ground /\ player.vy = 30

\* no platform within 12 above the head of the player p, over the width the
\* horizontal move of a tick can take it
HeadRoom(p, plats) ==
    Clear(Rect(p.rect.x - PlayerSpeed, p.rect.y - 12,
               p.rect.w + 2 * PlayerSpeed, 12), plats)

\* C10: a playing tick of a living player that is on the ground with a
\* jump requested and no platform within 12 above its head leaves vy = -12,
\* no jump requested, and the player off the ground.
C10_Jump ==
    [][(/\ prev'.tick /\ player.alive
        /\ player.on_ground /\ player.jump_requested
        /\ HeadRoom(player, platforms))
          => /\ player'.vy = -24
             /\ ~player'.jump_requested
             /\ ~player'.on_ground]_vars

\* the player after the tick that made it jump
C10_Witness ==
    /\ prev.tick /\ prev.player.alive
    /\ prev.player.on_ground /\ prev.player.jump_requested
    /\ HeadRoom(prev.player, platforms)
    /\ player.vy = -24 /\ ~player.jump_requested /\ ~player.on_ground

\* C11: a jump request made by key presses that all arrived while
\* on_ground was false never makes a tick set vy to -12, neither the next
\* tick nor a later one.
C11_AirborneIgnored ==
    [][(prev'.tick /\ hist.air_request) => player'.vy # -24]_vars

\* C12: the first enemy of the level (width 35, patrol_left 150,
\* patrol_right 330, started at x = 160 moving right at speed 2) never has
\* its right edge beyond patrol_right, and turns from vx = 2 to vx = -2 at
\* x = 330 - 35 = 295, its right edge on patrol_right.
C12_TurnsAtPatrolRight ==
    [][prev'.tick =>
          /\ right(enemies'[1].rect) <= enemies'[1].patrol_right
          /\ (enemies[1].vx = 2 /\ enemies'[1].vx = -2) =>
                 /\ enemies[1].rect.x = 295
                 /\ right(enemies[1].rect) = enemies[1].patrol_right]_vars

\* C13: a playing tick leaves the player dead without taking a life exactly
\* when it leaves the rectangle's y above HEIGHT + 100 = 700; such a tick
\* ends in gameover, whatever lives is, and does not change lives.
C13_FallDeath ==
    [][(prev'.tick /\ player.alive) =>
          /\ (~player'.alive /\ lives' = lives) <=> player'.rect.y > 700
          /\ player'.rect.y > 700 =>
                 game_state' = "gameover" /\ lives' = lives]_vars

\* the end of a fall below the screen, with every life left
C13_Witness ==
    /\ prev.tick /\ prev.player.alive /\ prev.player.rect.y <= 700
    /\ player.rect.y > 700 /\ ~player.alive
    /\ game_state = "gameover" /\ lives = 3

\* what a level starts from: six platforms, three enemies, six coins, a new
\* player, no score, three lives, no end message
Fresh ==
    [player |-> Player(100, 400),
     enemies |-> << Enemy(160, 400, 150, 330), Enemy(460, 350, 450, 630),
                    Enemy(510, 200, 500, 660) >>,
     coins |-> << Coin(250, 420), Coin(550, 370), Coin(275, 270),
                  Coin(590, 220), Coin(375, 150), Coin(700, 500) >>,
     platforms |-> << Rect(0, 550, 800, 50), Rect(150, 450, 200, 20),
                      Rect(450, 400, 200, 20), Rect(200, 300, 150, 20),
                      Rect(500, 250, 180, 20), Rect(300, 175, 150, 20) >>,
     score |-> 0, lives |-> 3, game_over_message |-> ""]

\* init_level called on the globals as they are gives Fresh, and called
\* again on what it gave, gives Fresh again; game_state is not among the
\* globals it writes
Idempotent ==
    /\ init_level(Level) = Fresh
    /\ init_level(init_level(Level)) = Fresh
    /\ "game_state" \notin DOMAIN init_level(Level)

\* C14: init_level gives, from any reachable state and called twice in a
\* row, the same layouts without duplicates, the same new player, score 0,
\* lives 3 and an empty message, and does not write game_state; the step
\* that enters playing leaves the globals so.
C14_InitLevelIdempotent ==
    [][/\ Idempotent /\ Idempotent'
       /\ (game_state # "playing" /\ game_state' = "playing")
              => Level' = Fresh]_vars

\* a level started from the globals of a game that was won
C14_Witness ==
    /\ game_state = "playing" /\ prev.game_state = "menu"
    /\ Cardinality(prev.collected) = 6 /\ prev.score = 60
    /\ Level = Fresh

\* the step leaves game_state, score, lives, the toggle flags and the
\* entities as it does when its audio call succeeds: a playing tick as
\* playing_tick computes them, the start of a game as init_level does, and
\* any other step unchanged but for the flag that a click on Toggle Music
\* flips
SameAsSuccess ==
    IF prev'.tick
    THEN /\ UNCHANGED <<music_enabled, sounds_enabled>>
         /\ \E dt \in Dts :
               \E st \in {playing_tick(Session, dt, player'.move_left,
                                        player'.move_right, platforms)} :
                   /\ game_state' = st.game_state /\ score' = st.score
                   /\ lives' = st.lives /\ player' = st.player
                   /\ enemies' = st.enemies /\ coins' = st.coins
    ELSE IF game_state' # game_state
         THEN /\ game_state' = "playing" /\ Level' = init_level(Level)
              /\ UNCHANGED <<music_enabled, sounds_enabled>>
         ELSE /\ UNCHANGED <<score, lives, sounds_enabled, player, enemies,
                             coins>>
              /\ \/ music_enabled' = music_enabled
                 \/ game_state = "menu" /\ music_enabled' = ~music_enabled

\* C15: no handler is left by an exception of an audio call, and a step
\* whose audio call failed leaves game_state, score, lives, the toggle flags
\* and the entities as when the call succeeds.
C15_AudioSwallowed ==
    [][~hist'.raised /\ (hist'.failed => SameAsSuccess)]_vars

\* C16: the invincible_timer of the player is never negative.
C16_TimerNonNegative == player.invincible_timer >= 0

\* the enemy e stands on or falls onto a platform of plats: it is above
\* the platform, with its bottom no more than 10 over the platform's top
OverPlatform(e, plats) ==
    \E i \in DOMAIN plats :
        /\ left(e.rect) < right(plats[i]) /\ right(e.rect) > left(plats[i])
        /\ bottom(e.rect) <= top(plats[i])
        /\ top(plats[i]) - bottom(e.rect) <= 10

\* a tick keeps the three enemies, each over a platform and with vx = speed
\* or vx = -speed, and changes vx only of an enemy whose left edge is at or
\* beyond patrol_left or whose right edge is at or beyond patrol_right
PatrolStep ==
    prev'.tick =>
        /\ Len(enemies') = 3 /\ Len(enemies) = 3
        /\ \A j \in 1..3 :
               /\ enemies'[j].vx \in {enemies'[j].speed, -enemies'[j].speed}
               /\ enemies'[j].speed = 2
               /\ OverPlatform(enemies'[j], platforms')
               /\ enemies'[j].vx # enemies[j].vx =>
                      \/ left(enemies[j].rect) <= enemies[j].patrol_left
                      \/ right(enemies[j].rect) >= enemies[j].patrol_right

\* C17: while the level goes on and the ticks keep coming, every enemy
\* moves right again and again and moves left again and again; its vx is
\* always speed or -speed and changes only in a tick that finds it at a
\* patrol boundary; no enemy is removed or leaves its platform.
C17_PatrolForever ==
    /\ [][PatrolStep]_vars
    /\ \A j \in 1..3 : []<>(enemies[j].vx = 2) /\ []<>(enemies[j].vx = -2)

\* the first enemy back where it started, moving right, after it has
\* landed and turned at both ends of its patrol
C17_Witness ==
    /\ prev.tick /\ game_state = "playing"
    /\ enemies[1].rect = Rect(160, 410, 35, 40) /\ enemies[1].vx = 2
    /\ prev.lives = 3 /\ score = 0

\* the animation counters of a body
Animation(b) == <<b.animation_timer, b.animation_frame>>

\* C18 as stated: in a tick of a living player the animation is advanced
\* if and only if, after the movement, vy # 0 or the player is off the
\* ground.
C18_Original ==
    [][(prev'.tick /\ player.alive) =>
          (Animation(player') # Animation(player)
              <=> (player'.vy # 0 \/ ~player'.on_ground))]_vars

\* C18: in a tick of a living player the animation is advanced if and only
\* if, after the movement, vx # 0 or the player is off the ground; a player
\* standing still on the ground keeps its animation counters.
C18_Animation ==
    [][(prev'.tick /\ player.alive) =>
          (Animation(player') # Animation(player)
              <=> (player'.vx # 0 \/ ~player'.on_ground))]_vars

\* a tick has left the player walking on the ground, vy = 0, with its
\* animation advanced
C18_Witness ==
    /\ prev.tick /\ prev.player.alive /\ player.alive
    /\ player.on_ground /\ player.vy = 0 /\ player.vx # 0
    /\ Animation(player) # Animation(prev.player)

\* C19: a step taken while game_state is menu, gameover or win that does
\* not start a level leaves score, lives, the end message, the player,
\* the enemies, the coins and the platforms unchanged; a step taken while
\* game_state is playing never decreases score, never increases lives and
\* leaves the platforms alone, and unless it is a tick it leaves score,
\* lives, the end message, the enemies and the coins unchanged too.
C19_Frame ==
    [][/\ (game_state # "playing" /\ game_state' # "playing")
            => Level' = Level
       /\ game_state = "playing"
            => /\ score' >= score /\ lives' <= lives
               /\ platforms' = platforms
               /\ ~prev'.tick =>
                      UNCHANGED <<score, lives, game_over_message,
                                  enemies, coins>>]_vars

\* a step taken on the game-over screen of a level in which coins were
\* collected and lives lost: nothing of the level has changed
C19_Witness ==
    /\ ~prev.tick /\ prev.game_state = "gameover"
    /\ prev.score > 0 /\ prev.lives = 0
    /\ score = prev.score /\ lives = prev.lives /\ player = prev.player
    /\ game_over_message = prev.game_over_message

\* C20: score is 10 times the number of collected coins, so it is a
\* multiple of 10 between 0 and 60, and it is 60 in the win state.
C20_ScoreCountsCoins ==
    /\ score = 10 * Cardinality(Collected(coins))
    /\ score \in {10 * n : n \in 0..6}
    /\ game_state = "win" => score = 60

\* three of the six coins collected in the level being played
C20_Witness ==
    /\ game_state = "playing" /\ prev.tick
    /\ Cardinality(Collected(coins)) = 3 /\ score = 30

\* C21: while game_state is playing the player is alive, lives is between
\* 1 and 3 and some coin is not collected; lives is between 0 and 3 in
\* every state.
C21_PlayingIsAlive ==
    /\ lives \in 0..3
    /\ game_state = "playing" =>
           /\ player.alive
           /\ lives \in 1..3
           /\ \E i \in DOMAIN coins : ~coins[i].collected

\* the level goes on after a tick that took the second life
C21_Witness ==
    /\ game_state = "playing" /\ prev.tick
    /\ prev.lives = 2 /\ lives = 1 /\ player.alive

\* C22: in no state does the rectangle of the player or of an enemy
\* overlap a platform (rectangles that only touch do not overlap); in
\* particular not at the end of a playing tick.
C22_NoOverlap ==
    /\ Clear(player.rect, platforms)
    /\ \A j \in DOMAIN enemies : Clear(enemies[j].rect, platforms)

\* a tick has stopped the player against the left side of the second
\* platform, below its top and above its bottom
C22_Witness ==
    /\ prev.tick /\ prev.player.alive /\ Len(platforms) >= 2
    /\ right(player.rect) = left(platforms[2])
    /\ right(prev.player.rect) < left(platforms[2])
    /\ top(player.rect) < bottom(platforms[2])
    /\ bottom(player.rect) > top(platforms[2])

\* the body b stands on the platform: above it, its bottom on the
\* platform's top
StandsOn(b, platform) ==
    /\ left(b.rect) < right(platform) /\ right(b.rect) > left(platform)
    /\ bottom(b.rect) = top(platform)

\* the body b has landed on the platform
Landed(b, platform) == StandsOn(b, platform) /\ b.vy = 0 /\ b.on_ground

\* C23: a tick that finds a body landed on a platform (its bottom on the
\* platform's top, vy = 0, on_ground true) and does not make it jump or
\* leave the platform leaves it with on_ground true: the player with no
\* jump requested, and each enemy.
C23_StaysOnGround ==
    [][prev'.tick =>
          \A i \in DOMAIN platforms :
              /\ (/\ player.alive /\ ~player.jump_requested
                  /\ Landed(player, platforms[i])
                  /\ StandsOn(player', platforms[i]))
                     => player'.on_ground
              /\ \A j \in DOMAIN enemies :
                     (/\ Landed(enemies[j], platforms[i])
                      /\ StandsOn(enemies'[j], platforms[i]))
                         => enemies'[j].on_ground]_vars

\* C24: whenever game_state is gameover or win, the end message is not
\* empty.
C24_EndMessage ==
    game_state \in {"gameover", "win"} => game_over_message # ""
====
